---- MODULE Spec2Model ----
(***************************************************************************)
(* State-machine model of the todo backend: the token service, the         *)
(* identity guard, signup/signin, the task service and its HTTP handlers,  *)
(* and the chat endpoint.                                                  *)
(*                                                                         *)
(* Conventions.  Python None / an absent optional is the empty sequence    *)
(* <<>> and a present optional value v is <<v>>.  A title is a sequence of *)
(* one-character strings.  The clock counts whole seconds: create_token    *)
(* reads int(time.time()) and jwt.decode compares exp, an integer, with    *)
(* the current time, so only the whole second decides either.              *)
(***************************************************************************)
EXTENDS Integers, Sequences, FiniteSets, TLC

VARIABLES
    users,      \* rows of the user table, in insertion order
    tasks,      \* rows of the task table, in insertion order
    now,        \* the wall clock, in ticks
    held,       \* tokens create_token returned that a client still holds
    signups,    \* per worker: a signup request between its lookup and its commit
    granted,    \* per email: how many signup requests were answered with a token
    nextTaskId, \* stands for uuid4(): the id the next task row gets
    inflight,   \* per worker: a task mutation between its select and its commit
    resp        \* the last request completed and its response

vars == <<users, tasks, now, held, signups, granted, nextTaskId, inflight, resp>>

-----------------------------------------------------------------------------
(* Bounds of the model *)

MaxUsers == 2
MaxTasks == 2
MaxTime == 2
MaxHeld == 2
JWT_EXPIRES_IN == 1

Workers == {"w1", "w2"}

Emails == {"a@x.com", "b@x.com"}
Names == {"Ann"}
Passwords == {"pw1", "pw2"}
Salts == {"s1"}

None == <<>>
Some(v) == <<v>>

-----------------------------------------------------------------------------
(* Identifiers.  A user id is the string form of a uuid4; uuid.UUID parses  *)
(* the string back.                                                        *)

UserIdStr(n) == [uuid |-> n]

uuid_UUID(s) == s.uuid

PathIds == {UserIdStr(n) : n \in 1..MaxUsers}

TaskIds == 1..MaxTasks

\* an id no task ever has
NoSuchTask == MaxTasks + 1

-----------------------------------------------------------------------------
(* Credential store *)

bcrypt(password, salt) == <<salt, password>>

hash_password(password, salt) == [salt |-> salt, digest |-> bcrypt(password, salt)]

verify_password(password, hashed) == bcrypt(password, hashed.salt) = hashed.digest

-----------------------------------------------------------------------------
(* Token service *)

time_time == now

\* bug: the window is not added to exp
create_token_nowindow(payload) ==
    [kind |-> "jwt",
     sig |-> "valid",
     payload |-> [id |-> payload.id, user_id |-> payload.user_id, email |-> payload.email,
                  iat |-> time_time, exp |-> time_time]]

create_token(payload) ==
    [kind |-> "jwt",
     sig |-> "valid",
     payload |-> [id |-> payload.id, user_id |-> payload.user_id, email |-> payload.email,
                  iat |-> time_time, exp |-> time_time + JWT_EXPIRES_IN]]

\* bug: the token is still accepted in the second its exp names
verify_token_late(token) ==
    IF token.kind # "jwt" \/ token.sig # "valid"
    THEN [ok |-> FALSE, error |-> "Invalid token", claims |-> None]
    ELSE IF token.payload.exp < time_time
    THEN [ok |-> FALSE, error |-> "Token expired", claims |-> None]
    ELSE [ok |-> TRUE, error |-> "", claims |-> Some(token.payload)]

\* jwt.decode: the signature first, then the exp claim against the current time.
verify_token(token) ==
    IF token.kind # "jwt" \/ token.sig # "valid"
    THEN [ok |-> FALSE, error |-> "Invalid token", claims |-> None]
    ELSE IF token.payload.exp <= time_time
    THEN [ok |-> FALSE, error |-> "Token expired", claims |-> None]
    ELSE [ok |-> TRUE, error |-> "", claims |-> Some(token.payload)]

NoToken == [kind |-> "none", sig |-> "none",
            payload |-> [id |-> UserIdStr(0), user_id |-> UserIdStr(0), email |-> "",
                         iat |-> 0, exp |-> 0]]

Garbage == [NoToken EXCEPT !.kind = "garbage"]

\* bug: an expired token still identifies its subject
get_current_user_lenient(token) ==
    IF token.kind = "jwt" /\ token.sig = "valid"
    THEN [ok |-> TRUE, status |-> 200, detail |-> "", headers |-> {},
          user |-> Some(token.payload)]
    ELSE [ok |-> FALSE, status |-> 401, detail |-> "Invalid token",
          headers |-> {<<"WWW-Authenticate", "Bearer">>}, user |-> None]

\* Identity guard: oauth2_scheme extracts the bearer token, then verify_token.
get_current_user(token) ==
    IF token.kind = "none"
    THEN [ok |-> FALSE, status |-> 401, detail |-> "Not authenticated",
          headers |-> {<<"WWW-Authenticate", "Bearer">>}, user |-> None]
    ELSE LET v == verify_token(token) IN
         IF v.ok
         THEN [ok |-> TRUE, status |-> 200, detail |-> "", headers |-> {}, user |-> v.claims]
         ELSE [ok |-> FALSE, status |-> 401, detail |-> v.error,
               headers |-> {<<"WWW-Authenticate", "Bearer">>}, user |-> None]

-----------------------------------------------------------------------------
(* Task model *)

TaskPriority == {"low", "medium", "high"}

\* The Enum column stores the member's name; "high" and "HIGH" both look up HIGH,
\* any other string is passed to the database as it is.
PriorityDbName(p) ==
    CASE p \in {"low", "LOW"} -> "LOW"
      [] p \in {"medium", "MEDIUM"} -> "MEDIUM"
      [] p \in {"high", "HIGH"} -> "HIGH"
      [] OTHER -> p

\* in code point order
Alphabet == <<"%", "A", "B", "_", "a", "b">>

CharRank(c) == CHOOSE i \in 1..Len(Alphabet) : Alphabet[i] = c

lower(c) == CASE c = "A" -> "a" [] c = "B" -> "b" [] OTHER -> c

Titles == {<<"B", "a">>}

Descriptions == {None, Some("d")}

\* TaskBase.title: min_length=1, max_length=100
TitleValid(t) == Len(t) >= 1 /\ Len(t) <= 100

\* Task.model_validate(task_data, update={"user_id": user_id}) with the default
\* factories of id, created_at and updated_at.
NewTask(id, task_data, user_id) ==
    [id |-> id, user_id |-> user_id, title |-> task_data.title,
     description |-> task_data.description, is_completed |-> task_data.is_completed,
     priority |-> Some(task_data.priority), created_at |-> now, updated_at |-> now]

-----------------------------------------------------------------------------
(* Sequences *)

RECURSIVE SeqLess(_, _)
SeqLess(a, b) ==
    IF b = <<>> THEN FALSE
    ELSE IF a = <<>> THEN TRUE
    ELSE IF Head(a) # Head(b) THEN Head(a) < Head(b)
    ELSE SeqLess(Tail(a), Tail(b))

\* Rows paired with their sort key (a sequence of integers, compared
\* lexicographically).
RECURSIVE InsertSorted(_, _)
InsertSorted(x, s) ==
    IF s = <<>> THEN <<x>>
    ELSE IF SeqLess(x.key, Head(s).key) THEN <<x>> \o s
    ELSE <<Head(s)>> \o InsertSorted(x, Tail(s))

RECURSIVE SortKeyed(_)
SortKeyed(s) ==
    IF s = <<>> THEN <<>>
    ELSE InsertSorted(s[Len(s)], SortKeyed(SubSeq(s, 1, Len(s) - 1)))

\* ORDER BY key: a stable sort, rows with equal keys keep the order of the scan.
\* keys[i] is the sort key of s[i].
OrderBy(s, keys) ==
    LET keyed == [i \in 1..Len(s) |-> [key |-> keys[i], row |-> s[i]]]
        sorted == SortKeyed(keyed)
    IN  [i \in 1..Len(s) |-> sorted[i].row]

StrKey(str) == [i \in 1..Len(str) |-> CharRank(str[i])]

\* SQL LIKE on lower-cased operands: % matches any run, _ any one character.
RECURSIVE LikeMatch(_, _)
LikeMatch(text, pat) ==
    IF pat = <<>> THEN text = <<>>
    ELSE IF Head(pat) = "%"
    THEN LikeMatch(text, Tail(pat)) \/ (text # <<>> /\ LikeMatch(Tail(text), pat))
    ELSE /\ text # <<>>
         /\ (Head(pat) = "_" \/ lower(Head(pat)) = lower(Head(text)))
         /\ LikeMatch(Tail(text), Tail(pat))

ilike(text, pat) == LikeMatch(text, pat)

\* ORDER BY priority compares the stored names; NULL sorts first.
DbNameSeq(p) ==
    IF p = None THEN 0
    ELSE CASE PriorityDbName(p[1]) = "HIGH" -> 1
           [] PriorityDbName(p[1]) = "LOW" -> 2
           [] PriorityDbName(p[1]) = "MEDIUM" -> 3
           [] OTHER -> 4

-----------------------------------------------------------------------------
(* Task service.  Each operation takes the task table and returns its      *)
(* result with the table after the commit and the statements executed.     *)

\* A statement's result is modelled as the sequence of entities it selects:
\* first() is its first entity or None, all() the whole sequence.  The step from
\* the result row to the entity it carries is not modelled.

\* bug: the lookup is by id alone
OwnedBy_anyone(ts, task_id, user_id) == SelectSeq(ts, LAMBDA t : t.id = task_id)

\* select(Task).where(Task.id == task_id, Task.user_id == user_id)
OwnedBy(ts, task_id, user_id) ==
    SelectSeq(ts, LAMBDA t : t.id = task_id /\ t.user_id = user_id)

\* bug: the owner condition of the query is missing
WhereUser_anyone(ts, user_id) == ts

\* select(Task).where(Task.user_id == user_id)
WhereUser(ts, user_id) == SelectSeq(ts, LAMBDA t : t.user_id = user_id)

\* the key of a row under ORDER BY, by sort_by
SortKey(t, sort_by) ==
    IF sort_by = "priority" THEN <<DbNameSeq(t.priority)>>
    ELSE IF sort_by = "title" THEN StrKey(t.title)
    ELSE <<0 - t.created_at>>

\* The statement has one ORDER BY key and no second one: the database may
\* return rows with equal keys in any order (the order of its scan, which
\* changes when rows are rewritten, or of its sort).  The arrangements of a
\* result L in which the keys do not decrease.
Arrangements(L, sort_by) ==
    {[i \in 1..Len(L) |-> L[p[i]]] :
        p \in {f \in [1..Len(L) -> 1..Len(L)] :
                 /\ \A i \in 1..Len(L), j \in 1..Len(L) : i # j => f[i] # f[j]
                 /\ \A i \in 1..(Len(L) - 1) :
                       ~SeqLess(SortKey(L[f[i + 1]], sort_by), SortKey(L[f[i]], sort_by))}}

TaskService_get_tasks_elif(ts, user_id, status, priority, search, sort_by) ==
    LET s1 == WhereUser(ts, user_id)
        s2 == IF status = Some("completed") THEN SelectSeq(s1, LAMBDA t : t.is_completed)
              ELSE IF status = Some("pending") THEN SelectSeq(s1, LAMBDA t : ~t.is_completed)
              ELSE IF priority # None /\ priority # Some("")
              THEN SelectSeq(s1, LAMBDA t : t.priority # None
                                          /\ PriorityDbName(t.priority[1]) = PriorityDbName(priority[1]))
              ELSE s1
        s4 == IF search # None /\ search # Some(<<>>)
              THEN SelectSeq(s2, LAMBDA t : ilike(t.title, <<"%">> \o search[1] \o <<"%">>))
              ELSE s2
    IN  IF sort_by = "priority"
        THEN OrderBy(s4, [i \in 1..Len(s4) |-> <<DbNameSeq(s4[i].priority)>>])
        ELSE IF sort_by = "title"
        THEN OrderBy(s4, [i \in 1..Len(s4) |-> StrKey(s4[i].title)])
        ELSE OrderBy(s4, [i \in 1..Len(s4) |-> <<0 - s4[i].created_at>>])

TaskService_get_tasks(ts, user_id, status, priority, search, sort_by) ==
    LET s1 == WhereUser(ts, user_id)
        s2 == IF status = Some("completed") THEN SelectSeq(s1, LAMBDA t : t.is_completed)
              ELSE IF status = Some("pending") THEN SelectSeq(s1, LAMBDA t : ~t.is_completed)
              ELSE s1
        s3 == IF priority # None /\ priority # Some("")
              THEN SelectSeq(s2, LAMBDA t : t.priority # None
                                          /\ PriorityDbName(t.priority[1]) = PriorityDbName(priority[1]))
              ELSE s2
        s4 == IF search # None /\ search # Some(<<>>)
              THEN SelectSeq(s3, LAMBDA t : ilike(t.title, <<"%">> \o search[1] \o <<"%">>))
              ELSE s3
    IN  IF sort_by = "priority"
        THEN OrderBy(s4, [i \in 1..Len(s4) |-> <<DbNameSeq(s4[i].priority)>>])
        ELSE IF sort_by = "title"
        THEN OrderBy(s4, [i \in 1..Len(s4) |-> StrKey(s4[i].title)])
        ELSE OrderBy(s4, [i \in 1..Len(s4) |-> <<0 - s4[i].created_at>>])

\* task_data = None (no request body) fails model_validate before the insert.
TaskService_create_task(ts, id, task_data, user_id) ==
    IF task_data = None
    THEN [result |-> None, raised |-> TRUE, tasks |-> ts, reads |-> 0, writes |-> 0]
    ELSE LET db_task == NewTask(id, task_data[1], user_id)
         IN  [result |-> Some(db_task), raised |-> FALSE, tasks |-> Append(ts, db_task),
              reads |-> 1, writes |-> 1]

ReplaceRow(ts, row) == [i \in 1..Len(ts) |-> IF ts[i].id = row.id THEN row ELSE ts[i]]

\* bug: the delete is keyed by the owner, not by the task
RemoveRow_owner(ts, row) == SelectSeq(ts, LAMBDA t : t.user_id # row.user_id)

RemoveRow(ts, row) == SelectSeq(ts, LAMBDA t : t.id # row.id)

\* bug: the nullable fields the request left out are set to None
ApplyPatch_resetting(row, d) ==
    [row EXCEPT
        !.title = IF "title" \in DOMAIN d THEN d.title ELSE Some(@),
        !.description = IF "description" \in DOMAIN d THEN d.description ELSE None,
        !.is_completed = IF "is_completed" \in DOMAIN d THEN d.is_completed ELSE Some(@),
        !.priority = IF "priority" \in DOMAIN d THEN d.priority ELSE None,
        !.updated_at = IF "updated_at" \in DOMAIN d THEN d.updated_at ELSE @]

\* bug: every key of the request body is assigned, not only TaskUpdate's fields
ApplyPatch_anykey(row, d) ==
    [row EXCEPT
        !.title = IF "title" \in DOMAIN d THEN d.title ELSE Some(@),
        !.description = IF "description" \in DOMAIN d THEN d.description ELSE @,
        !.is_completed = IF "is_completed" \in DOMAIN d THEN d.is_completed ELSE Some(@),
        !.priority = IF "priority" \in DOMAIN d THEN d.priority ELSE @,
        !.updated_at = IF "updated_at" \in DOMAIN d THEN d.updated_at ELSE @,
        !.id = IF "id" \in DOMAIN d THEN d.id ELSE @,
        !.user_id = IF "user_id" \in DOMAIN d THEN d.user_id ELSE @,
        !.created_at = IF "created_at" \in DOMAIN d THEN d.created_at ELSE @]

\* for key, value in task_dict.items(): setattr(db_task, key, value)
ApplyPatch(row, d) ==
    [row EXCEPT
        !.title = IF "title" \in DOMAIN d THEN d.title ELSE Some(@),
        !.description = IF "description" \in DOMAIN d THEN d.description ELSE @,
        !.is_completed = IF "is_completed" \in DOMAIN d THEN d.is_completed ELSE Some(@),
        !.priority = IF "priority" \in DOMAIN d THEN d.priority ELSE @,
        !.updated_at = IF "updated_at" \in DOMAIN d THEN d.updated_at ELSE @]

\* title and is_completed are NOT NULL columns: the commit raises on None.
TaskService_update_task(ts, task_id, task_data, user_id) ==
    LET found == OwnedBy(ts, task_id, user_id) IN
    IF found = <<>>
    THEN [result |-> None, raised |-> FALSE, tasks |-> ts, reads |-> 1, writes |-> 0]
    ELSE IF task_data = None
    THEN [result |-> None, raised |-> TRUE, tasks |-> ts, reads |-> 1, writes |-> 0]
    ELSE LET task_dict == task_data[1]
             set == ApplyPatch(found[1], task_dict)
         IN  IF set.title = None \/ set.is_completed = None
             THEN [result |-> None, raised |-> TRUE, tasks |-> ts, reads |-> 1, writes |-> 0]
             ELSE LET db_task == [set EXCEPT !.title = @[1], !.is_completed = @[1]]
                  IN  [result |-> Some(db_task), raised |-> FALSE,
                       tasks |-> ReplaceRow(ts, db_task), reads |-> 2, writes |-> 1]

TaskService_get_task_by_id(ts, task_id, user_id) ==
    LET found == OwnedBy(ts, task_id, user_id)
    IN  [result |-> IF found = <<>> THEN None ELSE Some(found[1]), raised |-> FALSE,
         tasks |-> ts, reads |-> 1, writes |-> 0]

\* bug: the flag is set on the returned task and never stored
TaskService_update_task_completion_unsaved(ts, task_id, completed, user_id) ==
    LET found == OwnedBy(ts, task_id, user_id) IN
    IF found = <<>>
    THEN [result |-> None, raised |-> FALSE, tasks |-> ts, reads |-> 1, writes |-> 0]
    ELSE IF completed = None
    THEN [result |-> None, raised |-> TRUE, tasks |-> ts, reads |-> 1, writes |-> 0]
    ELSE LET db_task == [found[1] EXCEPT !.is_completed = completed[1], !.updated_at = now]
         IN  [result |-> Some(db_task), raised |-> FALSE, tasks |-> ts, reads |-> 2, writes |-> 0]

TaskService_update_task_completion(ts, task_id, completed, user_id) ==
    LET found == OwnedBy(ts, task_id, user_id) IN
    IF found = <<>>
    THEN [result |-> None, raised |-> FALSE, tasks |-> ts, reads |-> 1, writes |-> 0]
    ELSE IF completed = None
    THEN [result |-> None, raised |-> TRUE, tasks |-> ts, reads |-> 1, writes |-> 0]
    ELSE LET db_task == [found[1] EXCEPT !.is_completed = completed[1], !.updated_at = now]
         IN  [result |-> Some(db_task), raised |-> FALSE,
              tasks |-> ReplaceRow(ts, db_task), reads |-> 2, writes |-> 1]

TaskService_delete_task(ts, task_id, user_id) ==
    LET found == OwnedBy(ts, task_id, user_id) IN
    IF found = <<>>
    THEN [result |-> FALSE, raised |-> FALSE, tasks |-> ts, reads |-> 1, writes |-> 0]
    ELSE [result |-> TRUE, raised |-> FALSE, tasks |-> RemoveRow(ts, found[1]),
          reads |-> 1, writes |-> 1]

-----------------------------------------------------------------------------
(* Task endpoints.  current_user is the claim set get_current_user returned; *)
(* user_id is the string in the URL path.                                    *)

Reply(status, detail, body, ts, reads, writes) ==
    [status |-> status, detail |-> detail, body |-> body, tasks |-> ts,
     reads |-> reads, writes |-> writes]

Forbidden(detail, ts) == Reply(403, detail, None, ts, 0, 0)

\* an exception no handler catches
ServerError(ts, r) == Reply(500, "Internal Server Error", None, ts, r.reads, r.writes)

NotFound(ts, r) == Reply(404, "Task not found", None, ts, r.reads, r.writes)

list_tasks(ts, user_id, status, priority, search, sort_by, current_user) ==
    IF user_id # current_user.id
    THEN Forbidden("Access forbidden: Cannot access other users' tasks", ts)
    ELSE Reply(200, "", TaskService_get_tasks(ts, uuid_UUID(current_user.id), status,
                                              priority, search, sort_by), ts, 1, 0)

create_task(ts, user_id, id, task, current_user) ==
    IF user_id # current_user.id
    THEN Forbidden("Access forbidden: Cannot create tasks for other users", ts)
    ELSE LET r == TaskService_create_task(ts, id, task, uuid_UUID(current_user.id))
         IN  IF r.raised THEN ServerError(ts, r)
             ELSE Reply(201, "", r.result, r.tasks, r.reads, r.writes)

\* bug: the record is looked up before the path is compared with the caller
get_task_lookup_first(ts, user_id, task_id, current_user) ==
    LET r == TaskService_get_task_by_id(ts, task_id, uuid_UUID(user_id))
    IN  IF r.result = None THEN NotFound(ts, r)
        ELSE IF user_id # current_user.id
        THEN Reply(403, "Access forbidden: Cannot access other users' tasks", None, ts,
                   r.reads, r.writes)
        ELSE Reply(200, "", r.result, r.tasks, r.reads, r.writes)

get_task(ts, user_id, task_id, current_user) ==
    IF user_id # current_user.id
    THEN Forbidden("Access forbidden: Cannot access other users' tasks", ts)
    ELSE LET r == TaskService_get_task_by_id(ts, task_id, uuid_UUID(current_user.id))
         IN  IF r.result = None THEN NotFound(ts, r)
             ELSE Reply(200, "", r.result, r.tasks, r.reads, r.writes)

update_task(ts, user_id, task_id, task, current_user) ==
    IF user_id # current_user.id
    THEN Forbidden("Access forbidden: Cannot update other users' tasks", ts)
    ELSE LET r == TaskService_update_task(ts, task_id, task, uuid_UUID(current_user.id))
         IN  IF r.raised THEN ServerError(ts, r)
             ELSE IF r.result = None THEN NotFound(ts, r)
             ELSE Reply(200, "", r.result, r.tasks, r.reads, r.writes)

toggle_task_completion(ts, user_id, task_id, completed, current_user) ==
    IF user_id # current_user.id
    THEN Forbidden("Access forbidden: Cannot update other users' tasks", ts)
    ELSE LET r == TaskService_update_task_completion(ts, task_id, completed,
                                                     uuid_UUID(current_user.id))
         IN  IF r.raised THEN ServerError(ts, r)
             ELSE IF r.result = None THEN NotFound(ts, r)
             ELSE Reply(200, "", r.result, r.tasks, r.reads, r.writes)

delete_task(ts, user_id, task_id, current_user) ==
    IF user_id # current_user.id
    THEN Forbidden("Access forbidden: Cannot delete other users' tasks", ts)
    ELSE LET r == TaskService_delete_task(ts, task_id, uuid_UUID(current_user.id))
         IN  IF ~r.result THEN NotFound(ts, r)
             ELSE Reply(204, "", None, r.tasks, r.reads, r.writes)

-----------------------------------------------------------------------------
(* Account service *)

FindByEmail(us, email) == SelectSeq(us, LAMBDA u : u.email = email)

TokenClaims(user) == [id |-> user.id, user_id |-> user.id, email |-> user.email]

\* bug: the stored row is returned as it is
AuthResult_wholerow(user) ==
    [access_token |-> create_token(TokenClaims(user)), user |-> user]

AuthResult(user) ==
    [access_token |-> create_token(TokenClaims(user)),
     user |-> [id |-> user.id, email |-> user.email, name |-> user.name]]

\* bug: the message says why
signup_user_lookup_telling(us, email) ==
    IF FindByEmail(us, email) # <<>>
    THEN [raised |-> "ValueError", message |-> "Email already registered"]
    ELSE [raised |-> "", message |-> ""]

\* signup_user up to its first statement's result: the lookup by email.
signup_user_lookup(us, email) ==
    IF FindByEmail(us, email) # <<>>
    THEN [raised |-> "ValueError", message |-> "Signup failed"]
    ELSE [raised |-> "", message |-> ""]

\* bug: the email column is not unique
signup_user_commit_nounique(us, full_name, email, password, salt) ==
    LET user == [id |-> UserIdStr(Len(us) + 1), email |-> email, name |-> full_name,
                 hashed_password |-> hash_password(password, salt)]
    IN  [raised |-> "", message |-> "", users |-> Append(us, user),
         result |-> Some(AuthResult(user))]

\* User.email is a unique column: the commit of a second row with the same
\* email raises IntegrityError.
signup_user_commit(us, full_name, email, password, salt) ==
    LET user == [id |-> UserIdStr(Len(us) + 1), email |-> email, name |-> full_name,
                 hashed_password |-> hash_password(password, salt)]
    IN  IF \E k \in 1..Len(us) : us[k].email = email
        THEN [raised |-> "IntegrityError", message |-> "UNIQUE constraint failed: user.email",
              users |-> us, result |-> None]
        ELSE [raised |-> "", message |-> "", users |-> Append(us, user),
              result |-> Some(AuthResult(user))]

\* bug: a wrong password is reported as such
signin_user_telling(us, email, password) ==
    LET found == FindByEmail(us, email) IN
    IF found = <<>>
    THEN [raised |-> "ValueError", message |-> "Signin failed", result |-> None]
    ELSE IF ~verify_password(password, found[1].hashed_password)
    THEN [raised |-> "ValueError", message |-> "Wrong password", result |-> None]
    ELSE [raised |-> "", message |-> "", result |-> Some(AuthResult(found[1]))]

signin_user(us, email, password) ==
    LET found == FindByEmail(us, email) IN
    IF found = <<>>
    THEN [raised |-> "ValueError", message |-> "Signin failed", result |-> None]
    ELSE IF ~verify_password(password, found[1].hashed_password)
    THEN [raised |-> "ValueError", message |-> "Signin failed", result |-> None]
    ELSE [raised |-> "", message |-> "", result |-> Some(AuthResult(found[1]))]

\* POST /auth/signup: what the handler answers for an outcome of signup_user.
signup(raised, message, result) ==
    IF raised = "ValueError" THEN [status |-> 400, detail |-> message, body |-> None]
    ELSE IF raised # "" THEN [status |-> 400, detail |-> "Signup failed", body |-> None]
    ELSE [status |-> 200, detail |-> "", body |-> result]

\* POST /auth/signin
signin(us, email, password) ==
    LET r == signin_user(us, email, password) IN
    IF r.raised = "ValueError" THEN [status |-> 401, detail |-> r.message, body |-> None]
    ELSE IF r.raised # "" THEN [status |-> 401, detail |-> "Signin failed", body |-> None]
    ELSE [status |-> 200, detail |-> "", body |-> r.result]

-----------------------------------------------------------------------------
(* Chat endpoint *)

ChatContents == {"how to sort tasks", "thanks"}

_should_query_rag(user_message) == user_message \in {"how to sort tasks"}

RagOutcomes == {"success", "unsuccessful", "raises"}

GenOutcomes == {"ok", "raises"}

Apology == "I'm sorry, I encountered an error while processing your request. Please try again."

\* bug: context_used and sources follow the decision to query, not its outcome
chat_assuming_context(request, rag, gen) ==
    LET should_use_rag == request.use_rag /\ _should_query_rag(request.messages[Len(request.messages)])
    IN  [response |-> IF gen = "ok" THEN "generated" ELSE Apology,
         sources |-> IF should_use_rag THEN <<"source">> ELSE <<>>,
         context_used |-> should_use_rag,
         scope |-> IF should_use_rag THEN Some(request.user_id) ELSE None,
         rag |-> IF should_use_rag THEN 1 ELSE 0,
         gen |-> 1]

\* TodoAIChatbot.chat: rag and gen are what the two upstream services answer.
chat(request, rag, gen) ==
    LET should_use_rag == request.use_rag /\ _should_query_rag(request.messages[Len(request.messages)])
        rag_ok == should_use_rag /\ rag = "success"
    IN  [response |-> IF gen = "ok" THEN "generated" ELSE Apology,
         sources |-> IF rag_ok THEN <<"source">> ELSE <<>>,
         context_used |-> rag_ok,
         scope |-> IF should_use_rag THEN Some(request.user_id) ELSE None,
         rag |-> IF should_use_rag THEN 1 ELSE 0,
         gen |-> 1]

ChatReply(status, detail, body, scope, rag, gen) ==
    [status |-> status, detail |-> detail, body |-> body, scope |-> scope, rag |-> rag, gen |-> gen]

\* bug: the user_id of the request body is kept
chat_endpoint_trusting(request, current_user, configured, rag, gen) ==
    IF ~configured
    THEN ChatReply(503, "AI chatbot service is not configured", None, None, 0, 0)
    ELSE IF request.messages = <<>>
    THEN ChatReply(500, "Error processing chat request: list index out of range", None, None, 0, 0)
    ELSE LET r == chat(request, rag, gen)
         IN  ChatReply(200, "", Some([response |-> r.response, sources |-> r.sources,
                                      context_used |-> r.context_used]),
                       r.scope, r.rag, r.gen)

\* POST /chatbot/chat; configured: OPENAI_API_KEY is set.
chat_endpoint(request, current_user, configured, rag, gen) ==
    LET req == [request EXCEPT !.user_id = current_user.id] IN
    IF ~configured
    THEN ChatReply(503, "AI chatbot service is not configured", None, None, 0, 0)
    ELSE IF req.messages = <<>>
    THEN ChatReply(500, "Error processing chat request: list index out of range", None, None, 0, 0)
    ELSE LET r == chat(req, rag, gen)
         IN  ChatReply(200, "", Some([response |-> r.response, sources |-> r.sources,
                                      context_used |-> r.context_used]),
                       r.scope, r.rag, r.gen)

-----------------------------------------------------------------------------
(* Requests *)

Idle == [pc |-> "idle", full_name |-> "", email |-> "", password |-> ""]

\* no task mutation of the worker is between its select and its commit
Quiet == [pc |-> "idle", op |-> "none", task_id |-> 0, body |-> None, completed |-> FALSE,
          loaded |-> None, db_task |-> None, status |-> 0, result |-> None]

NoResp ==
    [op |-> "none", status |-> 0, detail |-> "", headers |-> {}, body |-> None,
     sub |-> 0, email |-> "", mismatch |-> FALSE, target |-> "-", reads |-> 0, writes |-> 0, scope |-> None,
     rag |-> 0, gen |-> 0, sort_by |-> ""]

\* a token whose payload was written by the caller: the signature cannot match
Forged == {[kind |-> "jwt", sig |-> "bad",
            payload |-> [id |-> UserIdStr(n), user_id |-> UserIdStr(n), email |-> "a@x.com",
                         iat |-> 0, exp |-> MaxTime + 1]] : n \in 1..MaxUsers}

Presentable == {NoToken, Garbage} \cup Forged \cup {h.token : h \in held}

Refused == {t \in Presentable : ~get_current_user(t).ok}

Accepted == {t \in Presentable : get_current_user(t).ok}

ListQueries ==
    {[status |-> None, priority |-> None, search |-> None, sort_by |-> "created_at"],
     [status |-> Some("completed"), priority |-> None, search |-> None, sort_by |-> "priority"],
     [status |-> Some("pending"), priority |-> Some("medium"), search |-> None, sort_by |-> "title"],
     [status |-> None, priority |-> None, search |-> Some(<<"b">>), sort_by |-> "title"]}

\* every combination of a status, a priority, a search string and a sort key,
\* among them values the handler does not know and the LIKE wildcards
QueryInputs ==
    [status : {None, Some("completed"), Some("pending"), Some("done")},
     priority : {None, Some(""), Some("high"), Some("HIGH")},
     search : {None, Some(<<>>), Some(<<"a">>), Some(<<"b", "A">>), Some(<<"_">>), Some(<<"%">>)},
     sort_by : {"created_at"}]

\* POST bodies of tasks to query: TaskCreate carries is_completed as well
QueryBodies ==
    [title : {<<"B", "a">>, <<"a">>}, description : {None}, is_completed : BOOLEAN,
     priority : {"low", "high"}]

TaskIdInputs == {0} \cup TaskIds \cup {NoSuchTask}

CreateBodies ==
    {None} \cup {Some([title |-> t, description |-> None, is_completed |-> FALSE,
                       priority |-> "medium"]) : t \in Titles \cup {<<>>}}

UpdateBodies ==
    {None, Some([title |-> Some(<<"b">>)]), Some([is_completed |-> Some(TRUE)]),
     Some([title |-> None])}

\* further PUT bodies: an empty title, an updated_at chosen by the client, and
\* two fields at once
EditBodies ==
    UpdateBodies \cup
    {Some([title |-> Some(<<>>)]), Some([updated_at |-> 0]),
     Some([description |-> Some("d"), priority |-> Some("high")])}

\* PUT bodies that carry keys TaskUpdate does not declare
OverreachBodies ==
    {Some([user_id |-> n, title |-> Some(<<"b">>)]) : n \in 1..MaxUsers}
    \cup {Some([id |-> NoSuchTask, created_at |-> MaxTime])}

CompletedInputs == {None, Some(TRUE), Some(FALSE)}

ChatBodies ==
    {[user_id |-> UserIdStr(1), messages |-> m.messages, use_rag |-> m.use_rag] :
        m \in {[messages |-> <<>>, use_rag |-> TRUE],
               [messages |-> <<"how to sort tasks">>, use_rag |-> TRUE],
               [messages |-> <<"how to sort tasks">>, use_rag |-> FALSE],
               [messages |-> <<"thanks">>, use_rag |-> TRUE]}}

\* request validation: the declared types and constraints of body and path
ValidTaskId(task_id) == task_id # 0

ValidCreate(task) == task = None \/ (TitleValid(task[1].title) /\ task[1].priority \in TaskPriority)

\* what the task id of a request names, for the caller current_user
Target(ts, task_id, current_user) ==
    IF task_id = 0 THEN "malformed"
    ELSE IF \E k \in 1..Len(ts) : ts[k].id = task_id /\ ts[k].user_id = uuid_UUID(current_user.id)
    THEN "own"
    ELSE IF \E k \in 1..Len(ts) : ts[k].id = task_id THEN "foreign"
    ELSE "absent"

\* the guard raised: 401 before validation and before the handler
Rejected(op) ==
    \E token \in Refused : \E g \in {get_current_user(token)} :
       /\ resp' = [NoResp EXCEPT !.op = op, !.status = g.status, !.detail = g.detail,
                                 !.headers = g.headers]
       /\ UNCHANGED <<users, tasks, now, held, signups, granted, nextTaskId, inflight>>

\* validation failed: 422 before the handler
Unprocessable(op, g, user_id, target) ==
    /\ resp' = [NoResp EXCEPT !.op = op, !.status = 422, !.detail = "validation error",
                              !.sub = uuid_UUID(g.user[1].id),
                              !.mismatch = (user_id # g.user[1].id), !.target = target]
    /\ UNCHANGED <<users, tasks, now, held, signups, granted, nextTaskId, inflight>>

\* the handler ran and answered r
Served(op, g, user_id, target, r) ==
    /\ tasks' = r.tasks
    /\ resp' = [NoResp EXCEPT !.op = op, !.status = r.status, !.detail = r.detail,
                              !.body = r.body, !.sub = uuid_UUID(g.user[1].id),
                              !.mismatch = (user_id # g.user[1].id), !.target = target,
                              !.reads = r.reads, !.writes = r.writes]
    /\ UNCHANGED <<users, now, held, signups, granted>>

Init ==
    /\ users = <<>>
    /\ tasks = <<>>
    /\ now = 0
    /\ held = {}
    /\ signups = [w \in Workers |-> Idle]
    /\ inflight = [w \in Workers |-> Quiet]
    /\ granted = [e \in Emails |-> 0]
    /\ nextTaskId = 1
    /\ resp = NoResp

Tick ==
    /\ now < MaxTime
    /\ now' = now + 1
    /\ UNCHANGED <<users, tasks, held, signups, granted, nextTaskId, inflight, resp>>

Pending == {w \in Workers : signups[w].pc = "commit"}

Minted(result) ==
    [token |-> result.access_token, at |-> now,
     claims |-> [id |-> result.user.id, user_id |-> result.user.id, email |-> result.user.email]]

\* the client keeps the new token or not, and may drop tokens it held
Keep(new) == {S \in SUBSET (held \cup {new}) : Cardinality(S) <= MaxHeld}

SignupLookup(w) ==
    /\ signups[w].pc = "idle"
    /\ \E full_name \in Names, email \in Emails, password \in {"pw1"} :
         LET r == signup_user_lookup(users, email)
             a == signup(r.raised, r.message, None)
         IN  IF r.raised # ""
             THEN /\ resp' = [NoResp EXCEPT !.op = "signup", !.status = a.status,
                                            !.detail = a.detail, !.body = a.body,
                                            !.email = email, !.reads = 1]
                  /\ UNCHANGED <<users, tasks, now, held, signups, granted, nextTaskId, inflight>>
             ELSE /\ Len(users) + Cardinality(Pending) < MaxUsers
                  /\ signups' = [signups EXCEPT ![w] = [pc |-> "commit", full_name |-> full_name,
                                                        email |-> email, password |-> password]]
                  /\ UNCHANGED <<users, tasks, now, held, granted, nextTaskId, inflight, resp>>

SignupCommit(w) ==
    /\ signups[w].pc = "commit"
    /\ \E salt \in Salts :
         LET q == signups[w]
             r == signup_user_commit(users, q.full_name, q.email, q.password, salt)
             a == signup(r.raised, r.message, r.result)
         IN  /\ users' = r.users
             /\ resp' = [NoResp EXCEPT !.op = "signup", !.status = a.status, !.detail = a.detail,
                                       !.body = a.body, !.email = q.email, !.reads = 1,
                                       !.writes = 1]
             /\ IF a.body # None
                THEN /\ held' \in Keep(Minted(a.body[1]))
                     /\ granted' = [granted EXCEPT ![q.email] = @ + 1]
                ELSE UNCHANGED <<held, granted>>
             /\ signups' = [signups EXCEPT ![w] = Idle]
             /\ UNCHANGED <<tasks, now, nextTaskId, inflight>>

Signin ==
    \E email \in Emails, password \in Passwords :
       LET a == signin(users, email, password) IN
       /\ IF a.body # None THEN held' \in Keep(Minted(a.body[1])) ELSE UNCHANGED held
       /\ resp' = [NoResp EXCEPT !.op = "signin", !.status = a.status, !.detail = a.detail,
                                 !.body = a.body, !.email = email, !.reads = 1]
       /\ UNCHANGED <<users, tasks, now, signups, granted, nextTaskId, inflight>>

ListTasksWith(queries) ==
    \/ Rejected("list")
    \/ \E token \in Accepted, user_id \in PathIds, q \in queries :
         \E g \in {get_current_user(token)} :
         \E r \in {list_tasks(tasks, user_id, q.status, q.priority, q.search, q.sort_by, g.user[1])} :
         \E body \in IF r.status = 200 THEN Arrangements(r.body, q.sort_by) ELSE {r.body} :
            /\ tasks' = r.tasks
            /\ resp' = [NoResp EXCEPT !.op = "list", !.status = r.status, !.detail = r.detail,
                                      !.body = body, !.sub = uuid_UUID(g.user[1].id),
                                      !.mismatch = (user_id # g.user[1].id),
                                      !.reads = r.reads, !.writes = r.writes,
                                      !.sort_by = q.sort_by]
            /\ UNCHANGED <<users, now, held, signups, granted, nextTaskId, inflight>>

ListTasks == ListTasksWith(ListQueries)

QueryTasks == ListTasksWith(QueryInputs)

CreateTask ==
    \/ Rejected("create")
    \/ \E token \in Accepted, user_id \in PathIds, task \in CreateBodies :
         \E g \in {get_current_user(token)} :
         IF ~ValidCreate(task) THEN Unprocessable("create", g, user_id, "-")
         ELSE \E r \in {create_task(tasks, user_id, nextTaskId, task, g.user[1])} :
              /\ r.status = 201 => nextTaskId <= MaxTasks
              /\ Served("create", g, user_id, "-", r)
              /\ nextTaskId' = IF r.status = 201 THEN nextTaskId + 1 ELSE nextTaskId
              /\ UNCHANGED inflight

GetTask ==
    \/ Rejected("get")
    \/ \E token \in Accepted, user_id \in PathIds, task_id \in TaskIdInputs :
         \E g \in {get_current_user(token)} :
         \E target \in {Target(tasks, task_id, g.user[1])} :
            IF ~ValidTaskId(task_id) THEN Unprocessable("get", g, user_id, target)
            ELSE \E r \in {get_task(tasks, user_id, task_id, g.user[1])} :
                 /\ Served("get", g, user_id, target, r)
                 /\ UNCHANGED <<nextTaskId, inflight>>

UpdateTaskWith(bodies) ==
    \/ Rejected("update")
    \/ \E token \in Accepted, user_id \in PathIds, task_id \in TaskIdInputs, task \in bodies :
         \E g \in {get_current_user(token)} :
         \E target \in {Target(tasks, task_id, g.user[1])} :
            IF ~ValidTaskId(task_id) THEN Unprocessable("update", g, user_id, target)
            ELSE \E r \in {update_task(tasks, user_id, task_id, task, g.user[1])} :
                 /\ Served("update", g, user_id, target, r)
                 /\ UNCHANGED <<nextTaskId, inflight>>

UpdateTask == UpdateTaskWith(UpdateBodies)

EditTask == UpdateTaskWith(EditBodies)

ToggleTaskCompletion ==
    \/ Rejected("complete")
    \/ \E token \in Accepted, user_id \in PathIds, task_id \in TaskIdInputs,
          completed \in CompletedInputs :
         \E g \in {get_current_user(token)} :
         \E target \in {Target(tasks, task_id, g.user[1])} :
            IF ~ValidTaskId(task_id) THEN Unprocessable("complete", g, user_id, target)
            ELSE \E r \in {toggle_task_completion(tasks, user_id, task_id, completed, g.user[1])} :
                 /\ Served("complete", g, user_id, target, r)
                 /\ UNCHANGED <<nextTaskId, inflight>>

DeleteTask ==
    \/ Rejected("delete")
    \/ \E token \in Accepted, user_id \in PathIds, task_id \in TaskIdInputs :
         \E g \in {get_current_user(token)} :
         \E target \in {Target(tasks, task_id, g.user[1])} :
            IF ~ValidTaskId(task_id) THEN Unprocessable("delete", g, user_id, target)
            ELSE \E r \in {delete_task(tasks, user_id, task_id, g.user[1])} :
                 /\ Served("delete", g, user_id, target, r)
                 /\ UNCHANGED <<nextTaskId, inflight>>

\* the upstream answers are drawn only where the request reaches the upstream
Chat ==
    \/ Rejected("chat")
    \/ \E token \in Accepted, request \in ChatBodies, configured \in BOOLEAN :
         \E gen \in IF configured /\ request.messages # <<>> THEN GenOutcomes ELSE {"ok"} :
         \E rag \in IF configured /\ request.messages # <<>> /\ request.use_rag
                      /\ _should_query_rag(request.messages[Len(request.messages)])
                    THEN RagOutcomes ELSE {"success"} :
            \E g \in {get_current_user(token)} :
            \E r \in {chat_endpoint(request, g.user[1], configured, rag, gen)} :
                /\ resp' = [NoResp EXCEPT !.op = "chat", !.status = r.status, !.detail = r.detail,
                                          !.body = r.body, !.sub = uuid_UUID(g.user[1].id),
                                          !.mismatch = (request.user_id # g.user[1].id),
                                          !.scope = r.scope, !.rag = r.rag, !.gen = r.gen]
                /\ UNCHANGED <<users, tasks, now, held, signups, granted, nextTaskId, inflight>>

Next ==
    \/ Tick
    \/ \E w \in Workers : SignupLookup(w)
    \/ \E w \in Workers : SignupCommit(w)
    \/ Signin
    \/ ListTasks
    \/ CreateTask
    \/ GetTask
    \/ UpdateTask
    \/ ToggleTaskCompletion
    \/ DeleteTask
    \/ Chat

\* the whole service
Spec == Init /\ [][Next]_vars

\* accounts and tokens: signup, signin, and the guarded requests that leave the
\* task table alone
NextAccounts ==
    \/ Tick
    \/ \E w \in Workers : SignupLookup(w)
    \/ \E w \in Workers : SignupCommit(w)
    \/ Signin
    \/ ListTasks
    \/ GetTask
    \/ Chat

SpecAccounts == Init /\ [][NextAccounts]_vars

\* the state after a@x.com and b@x.com signed up at time 0 and kept their tokens
Registered ==
    LET s1 == signup_user_commit(<<>>, "Ann", "a@x.com", "pw1", "s1")
        s2 == signup_user_commit(s1.users, "Ann", "b@x.com", "pw1", "s1")
        a2 == signup(s2.raised, s2.message, s2.result)
    IN  [users |-> s2.users,
         held |-> {Minted(s1.result[1]), Minted(s2.result[1])},
         resp |-> [NoResp EXCEPT !.op = "signup", !.status = a2.status, !.detail = a2.detail,
                                 !.body = a2.body, !.email = "b@x.com", !.reads = 1,
                                 !.writes = 1]]

InitTasks ==
    /\ now = 0
    /\ users = Registered.users
    /\ held = Registered.held
    /\ resp = Registered.resp
    /\ tasks = <<>>
    /\ signups = [w \in Workers |-> Idle]
    /\ inflight = [w \in Workers |-> Quiet]
    /\ granted = [e \in Emails |-> 1]
    /\ nextTaskId = 1

\* the task table: two registered users and the guarded requests
NextTasks ==
    \/ Tick
    \/ ListTasks
    \/ CreateTask
    \/ GetTask
    \/ UpdateTask
    \/ ToggleTaskCompletion
    \/ DeleteTask
    \/ Chat

SpecTasks == InitTasks /\ [][NextTasks]_vars

\* the task tables the two registered users can have built with creates at
\* time 0
QueryTables ==
    UNION {{[k \in 1..n |-> NewTask(k, f[k].body, f[k].owner)] :
              f \in [1..n -> [body : QueryBodies, owner : 1..Len(Registered.users)]]} :
           n \in 0..MaxTasks}

InitQuery ==
    /\ now = 0
    /\ users = Registered.users
    /\ held = Registered.held
    /\ tasks \in QueryTables
    /\ resp = NoResp
    /\ signups = [w \in Workers |-> Idle]
    /\ inflight = [w \in Workers |-> Quiet]
    /\ granted = [e \in Emails |-> 1]
    /\ nextTaskId = Len(tasks) + 1

\* list requests with every query over every such table
NextQuery == QueryTasks

SpecQuery == InitQuery /\ [][NextQuery]_vars

\* the state one second later: each user created a task at time 0, the clock
\* moved to 1 and both users signed in again and kept the new tokens
Edited ==
    LET body == [title |-> <<"B", "a">>, description |-> None, is_completed |-> FALSE,
                 priority |-> "medium"]
        c1 == TaskService_create_task(<<>>, 1, Some(body), 1)
        c2 == TaskService_create_task(c1.tasks, 2, Some(body), 2)
        a1 == signin(Registered.users, "a@x.com", "pw1")
        a2 == signin(Registered.users, "b@x.com", "pw1")
    IN  [tasks |-> [k \in 1..2 |-> [c2.tasks[k] EXCEPT !.created_at = 0, !.updated_at = 0]],
         held |-> {Minted(a1.body[1]), Minted(a2.body[1])},
         resp |-> [NoResp EXCEPT !.op = "signin", !.status = a2.status, !.detail = a2.detail,
                                 !.body = a2.body, !.email = "b@x.com", !.reads = 1]]

InitEdit ==
    /\ now = 1
    /\ users = Registered.users
    /\ held = Edited.held
    /\ resp = Edited.resp
    /\ tasks = Edited.tasks
    /\ signups = [w \in Workers |-> Idle]
    /\ inflight = [w \in Workers |-> Quiet]
    /\ granted = [e \in Emails |-> 1]
    /\ nextTaskId = 3

\* edits of tasks created earlier, with every kind of PUT body
NextEdit ==
    \/ Tick
    \/ EditTask

SpecEdit == InitEdit /\ [][NextEdit]_vars

-----------------------------------------------------------------------------
(* Two task mutations in flight.  Each request has its own session: its     *)
(* select loads the row, the handler assigns to the loaded object, and the  *)
(* commit flushes the columns whose value the handler changed, by primary   *)
(* key, and re-reads the row (session.refresh).                             *)

\* the caller of both requests, and the task both name
RaceCaller == TokenClaims(Registered.users[1])

RaceTask == 1

\* the mutations: PUT bodies, PATCH .../complete and DELETE
RaceRequests ==
    {[Quiet EXCEPT !.pc = "select", !.op = "update", !.task_id = RaceTask, !.body = Some(b)] :
        b \in {[title |-> Some(<<"b">>)], [is_completed |-> Some(TRUE)],
               [description |-> Some("d")]}}
    \cup {[Quiet EXCEPT !.pc = "select", !.op = "complete", !.task_id = RaceTask,
                        !.completed = c] : c \in BOOLEAN}
    \cup {[Quiet EXCEPT !.pc = "select", !.op = "delete", !.task_id = RaceTask]}

TaskColumns == {"title", "description", "is_completed", "priority", "updated_at"}

\* the object of the session after the handler's assignments
Assigned(q, row) ==
    IF q.op = "update"
    THEN [ApplyPatch(row, q.body[1]) EXCEPT !.title = @[1], !.is_completed = @[1]]
    ELSE IF q.op = "complete"
    THEN [row EXCEPT !.is_completed = q.completed, !.updated_at = now]
    ELSE row

\* db_task = session.execute(statement).first(); if not db_task: return None
TaskSelect(w) ==
    /\ inflight[w].pc = "select"
    /\ \E found \in {OwnedBy(tasks, inflight[w].task_id, uuid_UUID(RaceCaller.id))} :
          inflight' = [inflight EXCEPT ![w] =
             IF found = <<>>
             THEN [@ EXCEPT !.pc = "done", !.status = 404]
             ELSE [@ EXCEPT !.pc = "commit", !.loaded = Some(found[1]),
                            !.db_task = Some(Assigned(inflight[w], found[1]))]]
    /\ UNCHANGED <<users, tasks, now, held, signups, granted, nextTaskId, resp>>

\* session.commit() and session.refresh(db_task), or session.delete and
\* commit.  An UPDATE that matches no row raises (StaleDataError), and so does
\* the refresh of a row that is gone: the handler answers 500.  A DELETE that
\* matches no row only warns, and delete_task returns True.
TaskCommit(w) ==
    /\ inflight[w].pc = "commit"
    /\ LET q == inflight[w]
           cur == SelectSeq(tasks, LAMBDA t : t.id = q.task_id)
           changed == {f \in TaskColumns : q.db_task[1][f] # q.loaded[1][f]}
       IN  IF q.op = "delete"
           THEN /\ tasks' = RemoveRow(tasks, q.loaded[1])
                /\ inflight' = [inflight EXCEPT ![w] = [@ EXCEPT !.pc = "done", !.status = 204]]
           ELSE IF cur = <<>>
           THEN /\ tasks' = tasks
                /\ inflight' = [inflight EXCEPT ![w] = [@ EXCEPT !.pc = "done", !.status = 500]]
           ELSE \E row \in {[f \in DOMAIN cur[1] |->
                                IF f \in changed THEN q.db_task[1][f] ELSE cur[1][f]]} :
                /\ tasks' = ReplaceRow(tasks, row)
                /\ inflight' = [inflight EXCEPT ![w] =
                                   [@ EXCEPT !.pc = "done", !.status = 200, !.result = Some(row)]]
    /\ UNCHANGED <<users, now, held, signups, granted, nextTaskId, resp>>

\* both users have a task; two requests of the first user on their task arrive
InitRace ==
    /\ now = 1
    /\ users = Registered.users
    /\ held = Edited.held
    /\ resp = Edited.resp
    /\ tasks = Edited.tasks
    /\ signups = [w \in Workers |-> Idle]
    /\ inflight \in [Workers -> RaceRequests]
    /\ granted = [e \in Emails |-> 1]
    /\ nextTaskId = 3

NextRace ==
    \/ \E w \in Workers : TaskSelect(w)
    \/ \E w \in Workers : TaskCommit(w)

SpecRace == InitRace /\ [][NextRace]_vars

-----------------------------------------------------------------------------
(* Properties *)

TaskOps == {"list", "create", "get", "update", "complete", "delete"}

BearerOps == TaskOps \cup {"chat"}

Challenge == {<<"WWW-Authenticate", "Bearer">>}

\* the identities the guard attaches for the tokens clients hold
CallerClaims == {h.token.payload : h \in held}

StatusInputs == {None, Some("completed"), Some("pending")}
PriorityInputs == {None, Some("medium"), Some("high")}
SearchInputs == {None, Some(<<"b">>)}
SortInputs == {"created_at", "priority", "title"}

RealTaskIds == TaskIds \cup {NoSuchTask}

\* C1: whatever the filters and the sort key, list for owner A returns only
\* rows whose owner is A, in every state the task requests can reach.
C1_ListReturnsOnlyOwnTasks ==
    /\ \A n \in 1..MaxUsers, st \in StatusInputs, pr \in PriorityInputs,
          se \in SearchInputs, so \in SortInputs :
          LET L == TaskService_get_tasks(tasks, n, st, pr, se, so)
          IN  \A k \in 1..Len(L) : L[k].user_id = n
    /\ (resp.op = "list" /\ resp.status = 200) =>
          \A k \in 1..Len(resp.body) : resp.body[k].user_id = resp.sub

\* a list request returned rows while another owner's task was stored
C1_Witness ==
    /\ resp.op = "list" /\ resp.status = 200 /\ Len(resp.body) >= 1
    /\ \E k \in 1..Len(tasks) : tasks[k].user_id # resp.sub

\* C2: get, update, setCompletion and delete on a task of another owner answer
\* exactly as for an id no task has (404 "Task not found"), and leave the task
\* table as it was.
C2_ForeignTaskIsNotFound ==
    /\ \A c \in CallerClaims, k \in 1..Len(tasks) :
          tasks[k].user_id # uuid_UUID(c.id) =>
            LET T == tasks[k].id IN
            /\ get_task(tasks, c.id, T, c) = get_task(tasks, c.id, NoSuchTask, c)
            /\ get_task(tasks, c.id, T, c).status = 404
            /\ delete_task(tasks, c.id, T, c) = delete_task(tasks, c.id, NoSuchTask, c)
            /\ delete_task(tasks, c.id, T, c).status = 404
            /\ delete_task(tasks, c.id, T, c).tasks = tasks
            /\ \A b \in UpdateBodies :
                  /\ update_task(tasks, c.id, T, b, c) = update_task(tasks, c.id, NoSuchTask, b, c)
                  /\ update_task(tasks, c.id, T, b, c).status = 404
                  /\ update_task(tasks, c.id, T, b, c).tasks = tasks
            /\ \A d \in CompletedInputs :
                  /\ toggle_task_completion(tasks, c.id, T, d, c)
                        = toggle_task_completion(tasks, c.id, NoSuchTask, d, c)
                  /\ toggle_task_completion(tasks, c.id, T, d, c).status = 404
                  /\ toggle_task_completion(tasks, c.id, T, d, c).tasks = tasks
    /\ (resp.op \in {"get", "update", "complete", "delete"} /\ ~resp.mismatch
          /\ resp.target \in {"foreign", "absent"}) =>
          /\ resp.status = 404 /\ resp.detail = "Task not found"
          /\ resp.body = None /\ resp.writes = 0

\* an update aimed at another owner's task was answered 404
C2_Witness ==
    /\ resp.op = "update" /\ resp.target = "foreign" /\ ~resp.mismatch
    /\ resp.status = 404

\* C3 as stated: whenever the path user_id differs from the token's subject the
\* task request is answered 403 without any task-table statement.
C3_MismatchAlways403 ==
    (resp.op \in TaskOps /\ resp.mismatch) =>
        (resp.status = 403 /\ resp.reads = 0 /\ resp.writes = 0)

\* C3 amended: a task request whose path user_id differs from the token's
\* subject is refused without any task-table statement: with 403 when it passes
\* request validation, also for an id no task has (never 404), and with 422
\* when its task id or body is invalid.
C3_MismatchRefusedBeforeStore ==
    /\ (resp.op \in TaskOps /\ resp.mismatch) =>
          /\ resp.status \in {403, 422}
          /\ resp.status = 422 => (resp.target = "malformed" \/ resp.op = "create")
          /\ resp.reads = 0 /\ resp.writes = 0 /\ resp.body = None
    /\ \A c \in CallerClaims, p \in PathIds :
          p # c.id =>
            LET Refusal(r) == r.status = 403 /\ r.reads = 0 /\ r.writes = 0 /\ r.tasks = tasks
                                /\ r.body = None
            IN  /\ \A q \in ListQueries :
                      Refusal(list_tasks(tasks, p, q.status, q.priority, q.search, q.sort_by, c))
                /\ \A b \in {x \in CreateBodies : ValidCreate(x)} :
                      Refusal(create_task(tasks, p, nextTaskId, b, c))
                /\ \A T \in RealTaskIds :
                      /\ Refusal(get_task(tasks, p, T, c))
                      /\ Refusal(delete_task(tasks, p, T, c))
                      /\ \A b \in UpdateBodies : Refusal(update_task(tasks, p, T, b, c))
                      /\ \A d \in CompletedInputs :
                            Refusal(toggle_task_completion(tasks, p, T, d, c))

\* a get with a foreign path and an id no task has was answered 403
C3_Witness ==
    /\ resp.op = "get" /\ resp.mismatch /\ resp.target = "absent"
    /\ resp.status = 403

\* C4: a token verify_token rejects makes the guard raise 401 with the Bearer
\* challenge; the request then runs no handler: no task or account row changes
\* and neither upstream service is called.
C4_RejectedTokenStopsRequest ==
    /\ [](/\ \A t \in Presentable :
               (t.kind # "none" /\ ~verify_token(t).ok) =>
                  LET g == get_current_user(t)
                  IN  ~g.ok /\ g.status = 401 /\ g.headers = Challenge /\ g.user = None
          /\ (resp.op \in BearerOps /\ resp.status = 401) =>
               /\ resp.headers = Challenge /\ resp.body = None
               /\ resp.reads = 0 /\ resp.writes = 0
               /\ resp.rag = 0 /\ resp.gen = 0 /\ resp.scope = None)
    /\ [][(resp' # resp /\ resp'.op \in BearerOps /\ resp'.status = 401) =>
             (tasks' = tasks /\ users' = users /\ nextTaskId' = nextTaskId)]_vars

\* a delete carrying an expired token was refused while tasks were stored
C4_Witness ==
    /\ resp.op = "delete" /\ resp.status = 401 /\ resp.detail = "Token expired"
    /\ Len(tasks) >= 1

\* C5: every token verify_token rejects, expired or malformed or wrongly
\* signed, draws the same response from the guard: same status, same headers,
\* same detail.
C5_AuthFailuresIndistinguishable ==
    \A t1 \in Presentable, t2 \in Presentable :
       (t1.kind # "none" /\ t2.kind # "none" /\ ~verify_token(t1).ok /\ ~verify_token(t2).ok) =>
          get_current_user(t1) = get_current_user(t2)

\* C6: a token issued at time t is rejected by verify_token at every time
\* >= t + JWT_EXPIRES_IN although its signature is valid, and the guard refuses
\* the request that carries it with 401.
C6_ExpiredTokenRejected ==
    \A h \in held :
       now >= h.at + JWT_EXPIRES_IN =>
          /\ h.token.sig = "valid"
          /\ verify_token(h.token) = [ok |-> FALSE, error |-> "Token expired", claims |-> None]
          /\ h.token \in Refused
          /\ get_current_user(h.token).status = 401

\* a guarded request carrying a held token past its window was refused
C6_Witness ==
    /\ \E h \in held : now >= h.at + JWT_EXPIRES_IN
    /\ resp.op \in BearerOps /\ resp.status = 401 /\ resp.detail = "Token expired"

\* C7: at every time before its exp, whatever signups, signins and guarded
\* requests happened since it was issued, verify_token returns the claims given
\* to create_token plus iat = issue time and exp = iat + JWT_EXPIRES_IN.
C7_ValidTokenRoundTrip ==
    \A h \in held :
       now < h.at + JWT_EXPIRES_IN =>
          verify_token(h.token) =
             [ok |-> TRUE, error |-> "",
              claims |-> Some([id |-> h.claims.id, user_id |-> h.claims.user_id,
                               email |-> h.claims.email,
                               iat |-> h.at, exp |-> h.at + JWT_EXPIRES_IN])]

\* a token of the first account still verifies after a second account signed up
C7_Witness ==
    /\ Len(users) = 2
    /\ resp.op = "signup" /\ resp.status = 200 /\ resp.email = users[2].email
    /\ \E h \in held : /\ h.claims.email = users[1].email
                       /\ now < h.at + JWT_EXPIRES_IN
                       /\ verify_token(h.token).ok

\* C8: a signup for an email without account succeeds with a token and the
\* public account; a signup for the same email after it fails with 400 "Signup
\* failed" and no token, and exactly one account holds that email.
C8_SecondSignupFails ==
    /\ \A e \in Emails, n \in Names, p \in Passwords, s \in Salts :
          FindByEmail(users, e) = <<>> =>
            LET c == signup_user_commit(users, n, e, p, s)
                a == signup(c.raised, c.message, c.result)
                l == signup_user_lookup(c.users, e)
                b == signup(l.raised, l.message, None)
            IN  /\ signup_user_lookup(users, e).raised = ""
                /\ a.status = 200 /\ a.body # None
                /\ a.body[1].access_token.kind = "jwt"
                /\ a.body[1].user = [id |-> UserIdStr(Len(users) + 1), email |-> e, name |-> n]
                /\ b = [status |-> 400, detail |-> "Signup failed", body |-> None]
                /\ Len(FindByEmail(c.users, e)) = 1
    /\ \A e \in Emails :
          FindByEmail(users, e) # <<>> =>
            LET l == signup_user_lookup(users, e)
            IN  /\ signup(l.raised, l.message, None)
                      = [status |-> 400, detail |-> "Signup failed", body |-> None]
                /\ Len(FindByEmail(users, e)) = 1
    /\ resp.op = "signup" =>
          /\ Len(FindByEmail(users, resp.email)) = 1
          /\ \/ resp.status = 200 /\ resp.body # None /\ resp.body[1].user.email = resp.email
             \/ resp.status = 400 /\ resp.detail = "Signup failed" /\ resp.body = None

\* the second signup in sequence was refused at the lookup
C8_Witness ==
    /\ resp.op = "signup" /\ resp.status = 400 /\ resp.writes = 0
    /\ Len(FindByEmail(users, resp.email)) = 1
    /\ granted[resp.email] = 1

\* C9: however the lookups and commits of concurrent signups interleave, no two
\* rows of the user table share an email and at most one signup per email was
\* answered with a token.
C9_EmailUniqueUnderRace ==
    /\ \A i \in 1..Len(users), j \in 1..Len(users) : users[i].email = users[j].email => i = j
    /\ \A e \in Emails : granted[e] <= 1 /\ Len(FindByEmail(users, e)) = granted[e]

\* of two signups that both passed the lookup, the later commit was refused
C9_Witness ==
    /\ resp.op = "signup" /\ resp.status = 400 /\ resp.writes = 1
    /\ Len(FindByEmail(users, resp.email)) = 1
    /\ granted[resp.email] = 1

\* C10: signin for an email without account and signin for an account with a
\* wrong password are answered alike: 401, the same detail, no token; and a
\* refused signin leaves the user table as it was.
C10_SigninFailuresAlike ==
    /\ [](/\ \A e1 \in Emails, e2 \in Emails, p1 \in Passwords, p2 \in Passwords :
               (/\ FindByEmail(users, e1) = <<>>
                /\ FindByEmail(users, e2) # <<>>
                /\ ~verify_password(p2, FindByEmail(users, e2)[1].hashed_password)) =>
                  /\ signin(users, e1, p1) = signin(users, e2, p2)
                  /\ signin(users, e1, p1).status = 401
                  /\ signin(users, e1, p1).body = None
          /\ (resp.op = "signin" /\ resp.status # 200) =>
               (resp.status = 401 /\ resp.detail = "Signin failed" /\ resp.body = None))
    /\ [][(resp' # resp /\ resp'.op = "signin" /\ resp'.status = 401) =>
             (users' = users /\ held' = held)]_vars

\* a wrong password was refused while another email had no account
C10_Witness ==
    /\ resp.op = "signin" /\ resp.status = 401
    /\ FindByEmail(users, resp.email) # <<>>
    /\ \E e \in Emails : FindByEmail(users, e) = <<>>

\* the shape of a successful signup or signin answer for the stored account u
PublicAnswer(a, u) ==
    /\ DOMAIN a = {"access_token", "user"}
    /\ a.user = [id |-> u.id, email |-> u.email, name |-> u.name]
    /\ a.access_token.kind = "jwt" /\ a.access_token.sig = "valid"
    /\ DOMAIN a.access_token.payload = {"id", "user_id", "email", "iat", "exp"}
    /\ a.access_token.payload.id = u.id
    /\ a.access_token.payload.user_id = u.id
    /\ a.access_token.payload.email = u.email
    /\ a.access_token.payload.email \notin Passwords
    /\ a.user.email \notin Passwords /\ a.user.name \notin Passwords

ValidClaims == {get_current_user(t).user[1] : t \in Accepted}

EditableFields == {"title", "description", "is_completed", "priority"}

Rows(L) == {L[k] : k \in 1..Len(L)}

\* the queries that filter by status and priority only
FilterQueries == {q \in QueryInputs : q.search = None}

\* the answer to a list request of the caller for their own tasks
OwnList(c, q) == list_tasks(tasks, c.id, q.status, q.priority, q.search, q.sort_by, c)

SearchQueries == {q \in QueryInputs : q.status = None /\ q.priority = None /\ q.search # None}

CompletedIds(ts, n) ==
    {t.id : t \in Rows(TaskService_get_tasks(ts, n, Some("completed"), None, None, "created_at"))}

\* the ids of the tasks list(n, sort_by="priority") returns over the table ts
PriorityListIds(ts, n) ==
    {t.id : t \in Rows(TaskService_get_tasks(ts, n, None, None, None, "priority"))}

\* the answer in resp is the stored task of a successful request op
Answered(op) == resp.op = op /\ resp.status \in {200, 201} /\ resp.body # None

StoredIds(ts) == {t.id : t \in Rows(ts)}

Answerable == {request \in ChatBodies : request.messages # <<>>}

\* the ways the retrieval call fails: it raises (an HTTP error, a timeout) or
\* answers success = false
RagFailures == {"unsuccessful", "raises"}

\* C19: when the retrieval step fails, the chat request still answers 200 with
\* the generated response, context_used = false and no sources.
C19_RetrievalFailureDegrades ==
    /\ \A c \in ValidClaims, request \in Answerable, rag \in RagFailures :
          LET r == chat_endpoint(request, c, TRUE, rag, "ok")
          IN  /\ r.status = 200
              /\ r.body[1].response = "generated"
              /\ r.body[1].context_used = FALSE
              /\ r.body[1].sources = <<>>
    /\ (resp.op = "chat" /\ resp.status = 200) =>
          /\ resp.body[1].context_used <=> resp.body[1].sources # <<>>
          /\ resp.body[1].context_used => resp.rag = 1

\* a chat that consulted the retrieval service answered 200 with a generated
\* response, without context and without sources
C19_Witness ==
    /\ resp.op = "chat" /\ resp.status = 200 /\ resp.rag = 1
    /\ resp.body[1].response = "generated"
    /\ ~resp.body[1].context_used /\ resp.body[1].sources = <<>>

\* C20: when both the retrieval call and the generation call fail, the chat
\* endpoint answers 503; in every other combination of upstream outcomes it
\* answers 200.
C20_BothFailIsUnavailable ==
    \A c \in ValidClaims, request \in Answerable, rag \in RagOutcomes, gen \in GenOutcomes :
       LET r == chat_endpoint(request, c, TRUE, rag, gen)
           retrieval_failed == r.rag = 1 /\ rag \in RagFailures
       IN  IF retrieval_failed /\ gen = "raises" THEN r.status = 503 ELSE r.status = 200

\* the answer of the whole handler to the request q over the table ts
Serially(q, ts) ==
    IF q.op = "update" THEN update_task(ts, RaceCaller.id, q.task_id, q.body, RaceCaller)
    ELSE IF q.op = "complete"
    THEN toggle_task_completion(ts, RaceCaller.id, q.task_id, Some(q.completed), RaceCaller)
    ELSE delete_task(ts, RaceCaller.id, q.task_id, RaceCaller)

C22_ListOrderedTiesByInsertion ==
    (resp.op = "list" /\ resp.status = 200) =>
       \A i \in 1..Len(resp.body), j \in 1..Len(resp.body) :
          i < j =>
             LET ki == SortKey(resp.body[i], resp.sort_by)
                 kj == SortKey(resp.body[j], resp.sort_by)
             IN  /\ ~SeqLess(kj, ki)
                 /\ ki = kj => resp.body[i].id < resp.body[j].id

\* C23: every stored task has one id of its own and one owner, a registered
\* user; no request changes the id, the owner or the creation time of a task,
\* and no update does, whatever keys its body carries.
C23_IdentityOwnerCreationFixed ==
    /\ [](/\ \A i \in 1..Len(tasks), j \in 1..Len(tasks) : tasks[i].id = tasks[j].id => i = j
           /\ \A t \in Rows(tasks) : \E u \in Rows(users) : uuid_UUID(u.id) = t.user_id
           /\ \A c \in ValidClaims, id \in TaskIds, b \in UpdateBodies \cup OverreachBodies :
                 LET r == update_task(tasks, c.id, id, b, c)
                 IN  /\ Len(r.tasks) = Len(tasks)
                     /\ \A k \in 1..Len(tasks) :
                           /\ r.tasks[k].id = tasks[k].id
                           /\ r.tasks[k].user_id = tasks[k].user_id
                           /\ r.tasks[k].created_at = tasks[k].created_at)
    /\ [][\A t \in Rows(tasks), v \in Rows(tasks') :
             t.id = v.id => v.user_id = t.user_id /\ v.created_at = t.created_at]_vars

\* an update was answered for a task created at an earlier time, while the
\* other user has a task too
C23_Witness ==
    /\ resp.op = "update" /\ resp.status = 200
    /\ resp.body[1].created_at < now
    /\ resp.body[1].user_id = resp.sub
    /\ \E t \in Rows(tasks) : t.user_id # resp.sub

\* C24: whenever a chat request queries the retrieval service, the project id
\* of the query is the id of the verified token's subject, whatever user_id the
\* request body carries; a request that queries nothing names no project.
C24_RetrievalScopeIsTokenSubject ==
    /\ \A c \in ValidClaims, request \in Answerable, rag \in RagOutcomes, gen \in GenOutcomes :
          LET r == chat_endpoint(request, c, TRUE, rag, gen)
          IN  r.scope \in {None, Some(c.id)}
    /\ resp.op = "chat" =>
          /\ resp.rag = 1 => resp.scope = Some(UserIdStr(resp.sub))
          /\ resp.rag = 0 => resp.scope = None

\* a chat whose body names another user queried the retrieval service, under
\* the caller's own id
C24_Witness ==
    /\ resp.op = "chat" /\ resp.status = 200
    /\ resp.mismatch /\ resp.rag = 1
    /\ resp.scope = Some(UserIdStr(resp.sub))

====
